---- MODULE Spec2Model ----
(***************************************************************************)
(* Model of src/src/components/AudioEngine.js: the AudioEngine React       *)
(* component (session effect, parameter-update effect, interval timers)    *)
(* and the layers it builds on a Web Audio context.                        *)
(*                                                                         *)
(* Units: frequencies in Hz, intervals and time constants in ms, decibels  *)
(* in dB, gains in 1/10000, probabilities in 1/100.  scale() returns an    *)
(* exact rational [n, d] (value n/d).                                      *)
(***************************************************************************)
EXTENDS Integers, Sequences, FiniteSets, TLC

\* ---------------------------------------------------------------- bounds
MaxSessions == 2

\* Config values a render may deliver (70/60/65/75 are the page's defaults).
TensionVals == {0, 70}
PulseVals == {0, 60}
ReverbVals == {0, 65}
VolumeVals == {0, 75}
\* Math.random() outcomes, in 1/100.
RandomVals == {10, 30, 90}

VARIABLES
    mounted,        \* the component is mounted
    props,          \* the props of the last committed render
    ctxRef,         \* ctxRef.current: 0 (null) or a context id
    nodesRef,       \* nodesRef.current: 0 (null) or the id of the session's nodes
    timersRef,      \* timersRef.current: sequence of timer ids
    cleanupOf,      \* the session whose cleanup closure the effect holds, 0 if none
    contexts,       \* contexts[i]: state of the i-th AudioContext created
    nodes,          \* nodes[i]: the audio nodes built on context i
    timers,         \* the live interval timers (the host's timer table)
    calls,          \* the host calls made by the last handler, in order
    thrown,         \* an effect raised during the last commit
    audioAvailable, \* window.AudioContext can be constructed
    pulseTicked,    \* a pulse tick has fired since the pulse prop last changed
                    \* or the session started
    layer           \* one layer or function exercised on its own (the layer
                    \* specifications below); "engine" while the component runs

vars == <<mounted, props, ctxRef, nodesRef, timersRef, cleanupOf, contexts, nodes,
          timers, calls, thrown, audioAvailable, pulseTicked, layer>>

\* ------------------------------------------------------------- utilities
Q(n, d) == [n |-> n, d |-> d]
NoTarget == Q(0, 0)
QEq(a, b) == a.d # 0 /\ b.d # 0 /\ a.n * b.d = b.n * a.d
QLess(a, b) == a.n * b.d < b.n * a.d

MathMax(a, b) == IF a >= b THEN a ELSE b
MathMin(a, b) == IF a <= b THEN a ELSE b

clamp(v, min, max) == MathMax(min, MathMin(max, v))

scale(v, inMin, inMax, outMin, outMax) ==
    LET den == IF inMax - inMin = 0 THEN 1 ELSE inMax - inMin
    IN  Q(outMin * den + (clamp(v, inMin, inMax) - inMin) * (outMax - outMin), den)

\* 10^(db/20): strictly increasing in db, so a gain is identified by its exponent.
dbToGain(db) == [pow10 |-> Q(db.n, db.d * 20)]

\* An AudioParam: its assigned value, how often .value was assigned, and the
\* pending setTargetAtTime automation (target, time constant).
Param(v) == [value |-> v, assigned |-> 1, target |-> NoTarget, tc |-> 0]
setTargetAtTime(p, target, tc) == [p EXCEPT !.target = target, !.tc = tc]
Effective(p) == IF p.target = NoTarget THEN p.value ELSE p.target

\* ------------------------------------------- parameters derived from config
pulseMs(pulse) == scale(pulse, 0, 100, 1600, 420)
noiseEveryMs(tension) == scale(tension, 0, 100, 4200, 1300)
pluckChance(tension) == scale(tension, 0, 100, 15, 55)
masterDb(volume) == scale(volume, 0, 100, -36, -3)
wetGain(reverb) == scale(reverb, 0, 100, 500, 5000)
droneCutoff(tension) == scale(tension, 0, 100, 260, 1800)
droneGain(tension) == scale(tension, 0, 100, 1000, 2000)
textureCenter(tension) == scale(tension, 0, 100, 400, 3200)
textureQ(tension) == scale(tension, 0, 100, 2, 8)
texturePeak(tension) == scale(tension, 0, 100, 1200, 3500)
textureDecay(tension) == scale(tension, 0, 100, 1600, 600)
pluckPeak(tension) == scale(tension, 0, 100, 600, 1800)
pluckDecay(tension) == scale(tension, 0, 100, 1200, 450)

Call(op, obj, ctx, raised) == [op |-> op, obj |-> obj, ctx |-> ctx, raised |-> raised]

\* ------------------------------------------------------------------ drone
DroneOscs == <<"osc1", "osc2", "osc3", "lfo">>

createDrone ==
    [running |-> FALSE,
     osc |-> [o \in {"osc1", "osc2", "osc3", "lfo"} |-> "created"],
     lpf |-> Param(Q(400, 1)),
     gain |-> Param(Q(1400, 1))]

\* The index in DroneOscs of the first source whose start() raises: an
\* oscillator can be started once (5: none raises).
StartRaiseAt(d) ==
    IF \E i \in 1..4 : d.osc[DroneOscs[i]] # "created"
    THEN CHOOSE i \in 1..4 :
            /\ d.osc[DroneOscs[i]] # "created"
            /\ \A j \in 1..(i - 1) : d.osc[DroneOscs[j]] = "created"
    ELSE 5

DroneStart(d) ==
    IF d.running THEN d
    ELSE [d EXCEPT !.running = TRUE,
                   !.osc = [o \in DOMAIN d.osc |->
                              IF \E i \in 1..4 : DroneOscs[i] = o /\ i < StartRaiseAt(d)
                              THEN "started" ELSE d.osc[o]]]

DroneStartRaises(d) == ~d.running /\ StartRaiseAt(d) <= 4

\* The index in DroneOscs of the source whose stop() raises (5: none does).
RaiseAt(fault) ==
    IF \E i \in 1..4 : DroneOscs[i] = fault
    THEN CHOOSE i \in 1..4 : DroneOscs[i] = fault
    ELSE 5

\* Mutant: stop() without the running guard.
DroneStop_noGuard(d, fault) ==
    [d EXCEPT !.running = FALSE,
              !.osc = [o \in DOMAIN d.osc |->
                         IF \E i \in 1..4 : DroneOscs[i] = o /\ i < RaiseAt(fault)
                         THEN "stopped" ELSE d.osc[o]]]

DroneStop(d, fault) ==
    IF ~d.running THEN d
    ELSE [d EXCEPT !.running = FALSE,
                   !.osc = [o \in DOMAIN d.osc |->
                              IF \E i \in 1..4 : DroneOscs[i] = o /\ i < RaiseAt(fault)
                              THEN "stopped" ELSE d.osc[o]]]

DroneStopCalls(d, s, fault) ==
    IF ~d.running THEN <<>>
    ELSE [i \in 1..MathMin(4, RaiseAt(fault)) |->
            Call("stop", DroneOscs[i], s, i = RaiseAt(fault))]

\* stop() encloses every source's stop() in try { } catch {}: nothing leaves it.
DroneStopRaises(d, fault) == FALSE

setTension(d, tension) ==
    [d EXCEPT !.lpf = setTargetAtTime(d.lpf, droneCutoff(tension), 500),
              !.gain = setTargetAtTime(d.gain, droneGain(tension), 500)]

\* ------------------------------------------------------ the engine state
Eng == [ctxRef |-> ctxRef, nodesRef |-> nodesRef, timersRef |-> timersRef,
        cleanupOf |-> cleanupOf, contexts |-> contexts, nodes |-> nodes,
        timers |-> timers, calls |-> <<>>, thrown |-> FALSE]

Install(e) ==
    /\ ctxRef' = e.ctxRef
    /\ nodesRef' = e.nodesRef
    /\ timersRef' = e.timersRef
    /\ cleanupOf' = e.cleanupOf
    /\ contexts' = e.contexts
    /\ nodes' = e.nodes
    /\ timers' = e.timers
    /\ calls' = e.calls
    /\ thrown' = e.thrown

TimerKinds == <<"pulse", "noise", "pluck">>
TimerId(s, kind) == [ctx |-> s, kind |-> kind]

\* ------------------------------------------------- session effect (8-78)
\* Lines 11-68: the graph, the timers, the refs, drone.start().
BuildSession(e, p) ==
      LET s == Len(e.contexts) + 1
          bundle ==
            [masterGain |-> Param(dbToGain(masterDb(p.volume))),
             reverbWet |-> Param(wetGain(p.reverb)),
             dryGain |-> Param(Q(10000, 1)),
             drone |-> DroneStart(createDrone),
             pulseOsc |-> "started",
             fired |-> FALSE,
             firedClosed |-> FALSE]
          made == {[id |-> TimerId(s, "pulse"), ms |-> pulseMs(p.pulse),
                    tension |-> p.tension],
                   [id |-> TimerId(s, "noise"), ms |-> noiseEveryMs(p.tension),
                    tension |-> p.tension],
                   [id |-> TimerId(s, "pluck"), ms |-> Q(2000, 1), tension |-> p.tension]}
      IN  [e EXCEPT
             !.contexts = Append(e.contexts, "running"),
             !.nodes = Append(e.nodes, bundle),
             !.timers = e.timers \cup made,
             !.ctxRef = s,
             !.nodesRef = s,
             !.timersRef = [i \in 1..3 |-> TimerId(s, TimerKinds[i])],
             !.cleanupOf = s,
             !.calls = e.calls \o
                 <<Call("new", "ctx", s, FALSE)>> \o
                 [i \in 1..3 |-> Call("setInterval", TimerKinds[i], s, FALSE)] \o
                 [i \in 1..4 |-> Call("start", DroneOscs[i], s, FALSE)]]

\* Mutant: a missing context is swallowed; the effect returns silently.
SessionBody_swallow(e, p, avail) ==
    IF ~p.isRunning \/ ~avail THEN e ELSE BuildSession(e, p)

\* new AudioCtx() raises when no constructor is available (line 11).
SessionBody(e, p, avail) ==
    IF ~p.isRunning THEN e
    ELSE IF ~avail THEN [e EXCEPT !.thrown = TRUE]
    ELSE BuildSession(e, p)

\* ctx.close() releases the context's graph: the parameters of its nodes are gone.
Released == [value |-> NoTarget, assigned |-> 0, target |-> NoTarget, tc |-> 0]

Close(n) ==
    [n EXCEPT !.masterGain = Released, !.reverbWet = Released, !.dryGain = Released,
              !.drone.lpf = Released, !.drone.gain = Released]

\* Mutant: the cleanup forgets ctx.close().
SessionCleanup_keepCtx(e, fault) ==
    LET s == e.cleanupOf
        cleared == {e.timersRef[i] : i \in 1..Len(e.timersRef)}
        drone == e.nodes[s].drone
    IN  [e EXCEPT
           !.timers = {t \in e.timers : t.id \notin cleared},
           !.timersRef = <<>>,
           !.nodes[s].drone = DroneStop(drone, fault),
           !.ctxRef = 0,
           !.nodesRef = 0,
           !.cleanupOf = 0,
           !.calls = e.calls \o
               [i \in 1..Len(e.timersRef) |->
                   Call("clearInterval", e.timersRef[i].kind, e.timersRef[i].ctx, FALSE)] \o
               DroneStopCalls(drone, s, fault)]

\* Mutant: the cleanup empties timersRef without clearInterval.
SessionCleanup_keepTimers(e, fault) ==
    LET s == e.cleanupOf
        drone == e.nodes[s].drone
        stopped == [e.nodes[s] EXCEPT !.drone = DroneStop(drone, fault)]
    IN  [e EXCEPT
           !.timersRef = <<>>,
           !.nodes[s] = Close(stopped),
           !.contexts[s] = "closed",
           !.ctxRef = 0,
           !.nodesRef = 0,
           !.cleanupOf = 0,
           !.calls = e.calls \o
               DroneStopCalls(drone, s, fault) \o
               <<Call("close", "ctx", s, FALSE)>>]

\* Mutant: the cleanup closes the context first and cancels the timers last.
SessionCleanup_closeFirst(e, fault) ==
    LET s == e.cleanupOf
        cleared == {e.timersRef[i] : i \in 1..Len(e.timersRef)}
        drone == e.nodes[s].drone
        stopped == [e.nodes[s] EXCEPT !.drone = DroneStop(drone, fault)]
    IN  [e EXCEPT
           !.timers = {t \in e.timers : t.id \notin cleared},
           !.timersRef = <<>>,
           !.nodes[s] = Close(stopped),
           !.contexts[s] = "closed",
           !.ctxRef = 0,
           !.nodesRef = 0,
           !.cleanupOf = 0,
           !.calls = e.calls \o
               <<Call("close", "ctx", s, FALSE)>> \o
               DroneStopCalls(drone, s, fault) \o
               [i \in 1..Len(e.timersRef) |->
                   Call("clearInterval", e.timersRef[i].kind, e.timersRef[i].ctx, FALSE)]]

\* Mutant: the cleanup leaves nodesRef pointing at the closed session's nodes.
SessionCleanup_keepNodes(e, fault) ==
    LET s == e.cleanupOf
        cleared == {e.timersRef[i] : i \in 1..Len(e.timersRef)}
        drone == e.nodes[s].drone
        stopped == [e.nodes[s] EXCEPT !.drone = DroneStop(drone, fault)]
    IN  [e EXCEPT
           !.timers = {t \in e.timers : t.id \notin cleared},
           !.timersRef = <<>>,
           !.nodes[s] = Close(stopped),
           !.contexts[s] = "closed",
           !.ctxRef = 0,
           !.cleanupOf = 0,
           !.calls = e.calls \o
               [i \in 1..Len(e.timersRef) |->
                   Call("clearInterval", e.timersRef[i].kind, e.timersRef[i].ctx, FALSE)] \o
               DroneStopCalls(drone, s, fault) \o
               <<Call("close", "ctx", s, FALSE)>>]

SessionCleanup(e, fault) ==
    LET s == e.cleanupOf
        cleared == {e.timersRef[i] : i \in 1..Len(e.timersRef)}
        drone == e.nodes[s].drone
        stopped == [e.nodes[s] EXCEPT !.drone = DroneStop(drone, fault)]
    IN  [e EXCEPT
           !.timers = {t \in e.timers : t.id \notin cleared},
           !.timersRef = <<>>,
           !.nodes[s] = Close(stopped),
           !.contexts[s] = "closed",
           !.ctxRef = 0,
           !.nodesRef = 0,
           !.cleanupOf = 0,
           !.calls = e.calls \o
               [i \in 1..Len(e.timersRef) |->
                   Call("clearInterval", e.timersRef[i].kind, e.timersRef[i].ctx, FALSE)] \o
               DroneStopCalls(drone, s, fault) \o
               <<Call("close", "ctx", s, FALSE)>>]

\* --------------------------------------- parameter-update effect (81-87)
\* Mutant: the update assigns the gains' values instead of automating them.
ParamEffect_instant(e, p) ==
    IF e.nodesRef = 0 THEN e
    ELSE IF e.ctxRef = 0 THEN [e EXCEPT !.thrown = TRUE]
    ELSE
      LET n == e.nodes[e.nodesRef]
      IN  [e EXCEPT
             !.nodes[e.nodesRef].masterGain =
                 [n.masterGain EXCEPT
                    !.value = dbToGain(masterDb(p.volume)),
                    !.assigned = MathMin(@ + 1, 2)],
             !.nodes[e.nodesRef].reverbWet =
                 [n.reverbWet EXCEPT
                    !.value = wetGain(p.reverb),
                    !.assigned = MathMin(@ + 1, 2)],
             !.nodes[e.nodesRef].drone = setTension(n.drone, p.tension)]

ParamEffect(e, p) ==
    IF e.nodesRef = 0 THEN e
    ELSE IF e.ctxRef = 0 THEN [e EXCEPT !.thrown = TRUE]
    ELSE
      LET n == e.nodes[e.nodesRef]
      IN  [e EXCEPT
             !.nodes[e.nodesRef].masterGain =
                 setTargetAtTime(n.masterGain, dbToGain(masterDb(p.volume)), 50),
             !.nodes[e.nodesRef].reverbWet =
                 setTargetAtTime(n.reverbWet, wetGain(p.reverb), 100),
             !.nodes[e.nodesRef].drone = setTension(n.drone, p.tension)]

\* ----------------------------------------------------- React commit phase
\* Effects whose dependencies changed: every cleanup first, then the bodies
\* in declaration order.  An effect that raises unmounts the component.
\* Mutant: the session effect also depends on pulse.
SessionDeps_withPulse(old, new, first) ==
    first \/ old.isRunning # new.isRunning \/ old.pulse # new.pulse

SessionDeps(old, new, first) == first \/ old.isRunning # new.isRunning
ParamDeps(old, new, first) ==
    first \/ old.tension # new.tension \/ old.reverb # new.reverb \/ old.volume # new.volume

Commit(e, old, new, first, avail, fault) ==
    LET e1 == IF SessionDeps(old, new, first) /\ e.cleanupOf # 0
              THEN SessionCleanup(e, fault) ELSE e
        e2 == IF SessionDeps(old, new, first) THEN SessionBody(e1, new, avail) ELSE e1
        e3 == IF ParamDeps(old, new, first) THEN ParamEffect(e2, new) ELSE e2
    IN  IF e3.thrown /\ e3.cleanupOf # 0 THEN SessionCleanup(e3, fault) ELSE e3

PropsSet ==
    [isRunning : BOOLEAN, tension : TensionVals, pulse : PulseVals,
     reverb : ReverbVals, volume : VolumeVals]

HomeDefaults ==
    [isRunning |-> FALSE, tension |-> 70, pulse |-> 60, reverb |-> 65, volume |-> 75]

Starts(old, new, first) == new.isRunning /\ SessionDeps(old, new, first)

EngineIdle ==
    /\ mounted = TRUE
    /\ props = HomeDefaults
    /\ ctxRef = 0
    /\ nodesRef = 0
    /\ timersRef = <<>>
    /\ cleanupOf = 0
    /\ contexts = <<>>
    /\ nodes = <<>>
    /\ timers = {}
    /\ calls = <<>>
    /\ thrown = FALSE
    /\ audioAvailable = TRUE
    /\ pulseTicked = FALSE

Init == EngineIdle /\ layer = "engine"

\* A render of the component with props p (Home: one prop changes at a time;
\* the component itself accepts any props).
Render(p, fault) ==
    /\ mounted
    /\ Starts(props, p, FALSE) => Len(contexts) < MaxSessions
    /\ LET e == Commit(Eng, props, p, FALSE, audioAvailable, fault)
       IN  /\ Install(e)
           /\ mounted' = ~e.thrown
    /\ props' = p
    /\ pulseTicked' = IF p.pulse # props.pulse \/ Starts(props, p, FALSE)
                      THEN FALSE ELSE pulseTicked
    /\ UNCHANGED <<audioAvailable, layer>>

Unmount(fault) ==
    /\ mounted
    /\ Install(IF cleanupOf # 0 THEN SessionCleanup(Eng, fault) ELSE Eng)
    /\ mounted' = FALSE
    /\ UNCHANGED <<props, audioAvailable, pulseTicked, layer>>

Mount(p, fault) ==
    /\ ~mounted
    /\ Starts(props, p, TRUE) => Len(contexts) < MaxSessions
    /\ LET fresh == [Eng EXCEPT !.ctxRef = 0, !.nodesRef = 0, !.timersRef = <<>>,
                                !.cleanupOf = 0]
           e == Commit(fresh, props, p, TRUE, audioAvailable, fault)
       IN  /\ Install(e)
           /\ mounted' = ~e.thrown
    /\ props' = p
    /\ pulseTicked' = FALSE
    /\ UNCHANGED <<audioAvailable, layer>>

\* The trigger call a timer callback makes: pulseNode.trigger(now),
\* texture.trigger(now, tension), pluck.trigger(now, tension).
Trigger(k, s, tension) ==
    [op |-> "trigger", obj |-> k, ctx |-> s, raised |-> FALSE,
     args |-> IF k = "pulse" THEN <<>> ELSE <<tension>>]

\* Mutant: the callbacks read the tension of the latest render.
Fire_liveTension(e, t, r) ==
    LET s == t.id.ctx
        k == t.id.kind
        hit == k # "pluck" \/ QLess(Q(r, 100), pluckChance(props.tension))
    IN  IF hit
        THEN [e EXCEPT !.nodes[s].fired = TRUE,
                       !.nodes[s].firedClosed = @ \/ e.contexts[s] = "closed",
                       !.calls = <<Trigger(k, s, props.tension)>>]
        ELSE e

\* One interval timer fires: its callback (lines 51, 52, 56-60).
Fire(e, t, r) ==
    LET s == t.id.ctx
        k == t.id.kind
        hit == k # "pluck" \/ QLess(Q(r, 100), pluckChance(t.tension))
    IN  IF hit
        THEN [e EXCEPT !.nodes[s].fired = TRUE,
                       !.nodes[s].firedClosed = @ \/ e.contexts[s] = "closed",
                       !.calls = <<Trigger(k, s, t.tension)>>]
        ELSE e

Tick(t, r) ==
    /\ t \in timers
    /\ Install(Fire(Eng, t, r))
    /\ pulseTicked' = (pulseTicked \/ t.id.kind = "pulse")
    /\ UNCHANGED <<mounted, props, audioAvailable, layer>>

\* The host gains or loses the ability to construct an AudioContext.
EnvAudio ==
    /\ audioAvailable' = ~audioAvailable
    /\ UNCHANGED <<mounted, props, ctxRef, nodesRef, timersRef, cleanupOf, contexts,
                   nodes, timers, calls, thrown, pulseTicked, layer>>

\* Which source's stop() raises during a teardown.  AudioContext.close() returns
\* a promise and raises nothing into the caller, so it is no fault here.
Faults == {"none", "osc1", "osc3"}
TeardownFaults(p) ==
    IF cleanupOf # 0 /\ p.isRunning # props.isRunning THEN Faults ELSE {"none"}

\* The renders the page (Home) causes: one state setter per event, so at most
\* one prop differs from the last render.
Differs(p, q) ==
    Cardinality({f \in {"isRunning", "tension", "pulse", "reverb", "volume"} : p[f] # q[f]})
HomeRenders == {p \in PropsSet : Differs(p, props) <= 1}

\* The host behaves as the Web Audio API specifies: contexts can be
\* constructed, stop() after start() does not raise.
Next ==
    \/ \E p \in PropsSet : Render(p, "none")
    \/ Unmount("none")
    \/ \E p \in PropsSet : Mount(p, "none")
    \/ \E t \in timers, r \in RandomVals : Tick(t, r)

Spec == Init /\ [][Next]_vars

\* The host may fail: no context obtainable, a stop() raising.
NextFaults ==
    \/ \E p \in HomeRenders : \E f \in TeardownFaults(p) : Render(p, f)
    \/ \E f \in Faults : Unmount(f)
    \/ \E p \in PropsSet : Mount(p, "none")
    \/ \E t \in timers, r \in RandomVals : Tick(t, r)
    \/ EnvAudio

SpecFaults == Init /\ [][NextFaults]_vars

\* ------------------------------------------------------ layer specifications
\* The engine's own variables stay as constructed while a layer is exercised.
EngineFrame ==
    UNCHANGED <<mounted, props, ctxRef, nodesRef, timersRef, cleanupOf, contexts,
                nodes, timers, calls, thrown, audioAvailable, pulseTicked>>

\* ---- the drone layer under any sequence of start() and stop() calls
MaxCalls == 5
StopFaults == {"none", "osc1", "osc2", "osc3", "lfo"}

InitDrone ==
    /\ EngineIdle
    /\ layer = [drone |-> createDrone, raised |-> FALSE, log |-> <<>>]

DroneCallStart ==
    /\ Len(layer.log) < MaxCalls
    /\ layer' = [drone |-> DroneStart(layer.drone),
                 raised |-> DroneStartRaises(layer.drone),
                 log |-> Append(layer.log, "start")]
    /\ EngineFrame

DroneCallStop(fault) ==
    /\ Len(layer.log) < MaxCalls
    /\ layer' = [drone |-> DroneStop(layer.drone, fault),
                 raised |-> DroneStopRaises(layer.drone, fault),
                 log |-> Append(layer.log, "stop")]
    /\ EngineFrame

NextDrone ==
    \/ DroneCallStart
    \/ \E f \in StopFaults : DroneCallStop(f)

SpecDrone == InitDrone /\ [][NextDrone]_vars

\* ---- the pulse layer under repeated triggers (lines 168-193)
MaxTime == 1500
MaxTriggers == 3
\* How far ctx.currentTime moves between two callbacks, in ms: within the
\* decay, by the shortest pulse interval, past the decay.  Two callbacks with
\* no step between them retrigger within the attack.
ClockSteps == {300, 420, 700}

\* An automation event of an AudioParam: by is the trigger that scheduled it.
Event(type, value, at, by) == [type |-> type, value |-> value, at |-> at, by |-> by]
cancelScheduledValues(evs, t) == {e \in evs : e.at < t}
setValueAtTime(evs, v, t, by) == evs \cup {Event("set", v, t, by)}
linearRampToValueAtTime(evs, v, t, by) == evs \cup {Event("linear", v, t, by)}
exponentialRampToValueAtTime(evs, v, t, by) == evs \cup {Event("exp", v, t, by)}

createPulse ==
    [osc |-> "started", freqValue |-> 50, gainValue |-> 0,
     freq |-> {}, gain |-> {}, n |-> 0, last |-> 0]

\* Mutant: trigger without cancelScheduledValues.
PulseTrigger_stack(pl, time, currentTime) ==
    LET now == IF time = 0 THEN currentTime ELSE time
        by == pl.n + 1
    IN  [pl EXCEPT
           !.freq = exponentialRampToValueAtTime(
                        setValueAtTime(pl.freq, 60, now, by), 40, now + 90, by),
           !.gain = exponentialRampToValueAtTime(
                        linearRampToValueAtTime(
                            setValueAtTime(pl.gain, 0, now, by), 6000, now + 10, by),
                        1, now + 600, by),
           !.n = by,
           !.last = now]

\* trigger(time), lines 180-190; time || ctx.currentTime takes the clock for 0.
PulseTrigger(pl, time, currentTime) ==
    LET now == IF time = 0 THEN currentTime ELSE time
        by == pl.n + 1
    IN  [pl EXCEPT
           !.freq = exponentialRampToValueAtTime(
                        setValueAtTime(cancelScheduledValues(pl.freq, now), 60, now, by),
                        40, now + 90, by),
           !.gain = exponentialRampToValueAtTime(
                        linearRampToValueAtTime(
                            setValueAtTime(cancelScheduledValues(pl.gain, now), 0, now, by),
                            6000, now + 10, by),
                        1, now + 600, by),
           !.n = by,
           !.last = now]

InitPulse ==
    /\ EngineIdle
    /\ layer = [now |-> 0, pulse |-> createPulse]

\* The pulse timer's callback: pulseNode.trigger(ctx.currentTime) (line 51).
PulseTick ==
    /\ layer.pulse.n < MaxTriggers
    /\ layer' = [layer EXCEPT !.pulse = PulseTrigger(layer.pulse, layer.now, layer.now)]
    /\ EngineFrame

ClockAdvance(dt) ==
    /\ layer.now + dt <= MaxTime
    /\ layer' = [layer EXCEPT !.now = @ + dt]
    /\ EngineFrame

NextPulse ==
    \/ PulseTick
    \/ \E dt \in ClockSteps : ClockAdvance(dt)

SpecPulse == InitPulse /\ [][NextPulse]_vars

\* ---- the texture layer under overlapping triggers (lines 196-223)
MaxVoices == 2

\* now + q for a clock reading in ms and a rational number of ms.
QPlus(now, q) == Q(now * q.d + q.n, q.d)

\* The nodes one texture trigger creates (lines 203-219): the envelope's
\* automation events carry the voice that scheduled them.
TextureVoice(buffer, center, q, events, now) ==
    [src |-> [buffer |-> buffer, startAt |-> now, stopAt |-> now + 2000],
     bp |-> [type |-> "bandpass", frequency |-> center, Q |-> q],
     env |-> [value |-> 0, events |-> events]]

TextureEnvelope(evs, now, tension, by) ==
    exponentialRampToValueAtTime(
        linearRampToValueAtTime(
            setValueAtTime(evs, Q(0, 1), Q(now, 1), by),
            texturePeak(tension), Q(now + 20, 1), by),
        Q(1, 1), QPlus(now, textureDecay(tension)), by)

\* center = scale(tension, 0, 100, 400, 3200) * (1 + (random - 0.5) * 0.3).
JitteredCenter(tension, r) ==
    LET c == textureCenter(tension) IN Q(c.n * (1000 + 3 * (r - 50)), c.d * 1000)

createTexture == [noiseBuffer |-> "noise", voices |-> <<>>]

\* Mutant: one envelope, the first voice's, takes every trigger's automation.
TextureTrigger_sharedEnv(tx, time, currentTime, tension, r) ==
    LET now == IF time = 0 THEN currentTime ELSE time
        by == Len(tx.voices) + 1
        voice(evs) == TextureVoice(tx.noiseBuffer, JitteredCenter(tension, r),
                                   textureQ(tension), evs, now)
    IN  IF tx.voices = <<>>
        THEN [tx EXCEPT !.voices = <<voice(TextureEnvelope({}, now, tension, by))>>]
        ELSE [tx EXCEPT !.voices =
                 Append([@ EXCEPT ![1].env.events = TextureEnvelope(@, now, tension, by)],
                        voice({}))]

\* trigger(time, tension), lines 201-220.
TextureTrigger(tx, time, currentTime, tension, r) ==
    LET now == IF time = 0 THEN currentTime ELSE time
        by == Len(tx.voices) + 1
    IN  [tx EXCEPT !.voices =
            Append(@, TextureVoice(tx.noiseBuffer, JitteredCenter(tension, r),
                                   textureQ(tension),
                                   TextureEnvelope({}, now, tension, by), now))]

\* The tension is the one the session's timer closure captured (line 52).
InitTexture ==
    /\ EngineIdle
    /\ \E t \in TensionVals : layer = [now |-> 0, tension |-> t, texture |-> createTexture]

\* The texture timer's callback: textureNode.trigger(ctx.currentTime, tension).
TextureTick(r) ==
    /\ Len(layer.texture.voices) < MaxVoices
    /\ layer' = [layer EXCEPT !.texture =
                     TextureTrigger(layer.texture, layer.now, layer.now, layer.tension, r)]
    /\ EngineFrame

NextTexture ==
    \/ \E r \in RandomVals : TextureTick(r)
    \/ \E dt \in ClockSteps : ClockAdvance(dt)

SpecTexture == InitTexture /\ [][NextTexture]_vars

\* ---- clamp and scale on JavaScript numbers (lines 93-97)
\* A double is finite (an exact rational q), NaN, or an infinity of sign q.n.
\* MaxDouble stands for Number.MAX_VALUE and HalfUlp for half the gap between
\* it and the double below: a result within HalfUlp of MaxDouble rounds to
\* MaxDouble, one further out is an infinity.  Rounding of smaller results is
\* not modelled.
MaxDouble == 10000
HalfUlp == 100

Abs(x) == IF x < 0 THEN -x ELSE x
Sign(x) == IF x < 0 THEN -1 ELSE IF x > 0 THEN 1 ELSE 0
Fin(q) == [k |-> "fin", q |-> q]
Num(i) == Fin(Q(i, 1))
NaN == [k |-> "nan", q |-> Q(0, 1)]
Infinity(s) == [k |-> "inf", q |-> Q(s, 1)]
IsNaN(a) == a.k = "nan"
IsFinite(a) == a.k = "fin"
JsSign(a) == Sign(a.q.n)

\* The double for n/d (d # 0), denominator kept positive.
Rounded(n, d) ==
    IF Abs(n) >= (MaxDouble + HalfUlp) * Abs(d)
    THEN Infinity(Sign(n) * Sign(d))
    ELSE IF Abs(n) > (MaxDouble - HalfUlp) * Abs(d)
         THEN Num(Sign(n) * Sign(d) * MaxDouble)
         ELSE Fin(Q(n * Sign(d), d * Sign(d)))

\* a < b for doubles other than NaN.
JsLess(a, b) ==
    IF a.k = "inf" THEN a.q.n < 0 /\ ~(b.k = "inf" /\ b.q.n < 0)
    ELSE IF b.k = "inf" THEN b.q.n > 0
    ELSE IF a.q.d = b.q.d THEN a.q.n < b.q.n
    ELSE a.q.n * b.q.d < b.q.n * a.q.d

JsMathMin(a, b) == IF IsNaN(a) \/ IsNaN(b) THEN NaN ELSE IF JsLess(b, a) THEN b ELSE a
JsMathMax(a, b) == IF IsNaN(a) \/ IsNaN(b) THEN NaN ELSE IF JsLess(a, b) THEN b ELSE a

JsNeg(a) == [a EXCEPT !.q.n = -@]
JsAdd(a, b) ==
    IF IsNaN(a) \/ IsNaN(b) THEN NaN
    ELSE IF a.k = "inf" /\ b.k = "inf" THEN (IF a.q.n = b.q.n THEN a ELSE NaN)
    ELSE IF a.k = "inf" THEN a
    ELSE IF b.k = "inf" THEN b
    ELSE Rounded(a.q.n * b.q.d + b.q.n * a.q.d, a.q.d * b.q.d)
JsSub(a, b) == JsAdd(a, JsNeg(b))
JsMul(a, b) ==
    IF IsNaN(a) \/ IsNaN(b) THEN NaN
    ELSE IF a.k = "inf" \/ b.k = "inf"
         THEN (IF JsSign(a) * JsSign(b) = 0 THEN NaN ELSE Infinity(JsSign(a) * JsSign(b)))
    ELSE Rounded(a.q.n * b.q.n, a.q.d * b.q.d)
JsDiv(a, b) ==
    IF IsNaN(a) \/ IsNaN(b) THEN NaN
    ELSE IF a.k = "inf" /\ b.k = "inf" THEN NaN
    ELSE IF a.k = "inf" THEN Infinity(IF JsSign(b) < 0 THEN -a.q.n ELSE a.q.n)
    ELSE IF b.k = "inf" THEN Num(0)
    ELSE IF b.q.n = 0 THEN (IF a.q.n = 0 THEN NaN ELSE Infinity(Sign(a.q.n)))
    ELSE Rounded(a.q.n * b.q.d, a.q.d * b.q.n)
\* a || b: a unless it is falsy (0 or NaN).
JsOr(a, b) == IF IsNaN(a) \/ (IsFinite(a) /\ a.q.n = 0) THEN b ELSE a

\* Mutant: no clamping.
clampJs_none(v, min, max) == v

clampJs(v, min, max) == JsMathMax(min, JsMathMin(max, v))

\* Mutant: a step at inMax instead of the interpolation.
scaleJs_step(v, inMin, inMax, outMin, outMax) ==
    IF IsNaN(v) THEN NaN
    ELSE IF JsLess(clampJs(v, inMin, inMax), inMax) THEN outMin ELSE outMax

scaleJs(v, inMin, inMax, outMin, outMax) ==
    LET t == JsDiv(JsSub(clampJs(v, inMin, inMax), inMin),
                   JsOr(JsSub(inMax, inMin), Num(1)))
    IN  JsAdd(outMin, JsMul(t, JsSub(outMax, outMin)))

\* ---- the parameters the engine derives from one config value
ConfigMargin == 50
ConfigValues ==
    {Num(i) : i \in (0 - ConfigMargin)..(100 + ConfigMargin)}
        \cup {Num(MaxDouble), Num(-MaxDouble), NaN, Infinity(1), Infinity(-1)}

FromConfig(v, outMin, outMax) == scaleJs(v, Num(0), Num(100), Num(outMin), Num(outMax))

\* Every scale(...) of a config value in the engine, in the units of the
\* operators above (ms, Hz, dB, gains in 1/10000, probability in 1/100).
Derive(v) ==
    [pulseMs |-> FromConfig(v, 1600, 420),
     noiseEveryMs |-> FromConfig(v, 4200, 1300),
     pluckChance |-> FromConfig(v, 15, 55),
     masterDb |-> FromConfig(v, -36, -3),
     wetGain |-> FromConfig(v, 500, 5000),
     droneCutoff |-> FromConfig(v, 260, 1800),
     droneGain |-> FromConfig(v, 1000, 2000),
     textureCenter |-> FromConfig(v, 400, 3200),
     textureQ |-> FromConfig(v, 2, 8),
     texturePeak |-> FromConfig(v, 1200, 3500),
     textureDecay |-> FromConfig(v, 1600, 600),
     pluckPeak |-> FromConfig(v, 600, 1800),
     pluckDecay |-> FromConfig(v, 1200, 450)]

\* The derived values handed to an AudioParam (a value, a target or a ramp
\* time): the host raises TypeError for one that is not finite.  The timer
\* intervals go to setInterval and the probability to a comparison, which
\* take any number.
AudioParamArgs ==
    {"masterDb", "wetGain", "droneCutoff", "droneGain", "textureCenter", "textureQ",
     "texturePeak", "textureDecay", "pluckPeak", "pluckDecay"}
AudioParamRaises(d) == \E name \in AudioParamArgs : ~IsFinite(d[name])

InitConfig ==
    /\ EngineIdle
    /\ \E v \in ConfigValues :
          layer = [value |-> v, done |-> FALSE, derived |-> <<>>, raised |-> FALSE]

ApplyConfig ==
    /\ ~layer.done
    /\ layer' = [layer EXCEPT !.done = TRUE,
                              !.derived = Derive(layer.value),
                              !.raised = AudioParamRaises(Derive(layer.value))]
    /\ EngineFrame

NextConfig == ApplyConfig

SpecConfig == InitConfig /\ [][NextConfig]_vars

\* ---- scale as a function of five finite numbers
ScaleInputs == {-MaxDouble, -1, 0, 2, MaxDouble}

InitScale ==
    /\ EngineIdle
    /\ \E v \in ScaleInputs, inMin \in ScaleInputs, inMax \in ScaleInputs,
          outMin \in ScaleInputs, outMax \in ScaleInputs :
          layer = [v |-> v, inMin |-> inMin, inMax |-> inMax,
                   outMin |-> outMin, outMax |-> outMax, done |-> FALSE, result |-> NaN]

ApplyScale ==
    /\ ~layer.done
    /\ layer' = [layer EXCEPT !.done = TRUE,
                              !.result = scaleJs(Num(layer.v), Num(layer.inMin), Num(layer.inMax),
                                                 Num(layer.outMin), Num(layer.outMax))]
    /\ EngineFrame

NextScale == ApplyScale

SpecScale == InitScale /\ [][NextScale]_vars

\* ------------------------------------------------------------ properties
Kinds == {"pulse", "noise", "pluck"}
Running == mounted /\ props.isRunning
OpenContexts == {i \in DOMAIN contexts : contexts[i] = "running"}
TornDown(s) == s \in DOMAIN contexts /\ cleanupOf # s
SourceStates == [s \in DOMAIN nodes |-> <<nodes[s].drone.running, nodes[s].drone.osc,
                                          nodes[s].pulseOsc>>]
HasCall(log, op, obj, s) == \E i \in DOMAIN log : log[i] = Call(op, obj, s, FALSE)
LifecycleCalls(log) ==
    {i \in DOMAIN log :
        log[i].op \in {"new", "setInterval", "clearInterval", "start", "stop", "close"}}

\* C1: at most one audio context is open; while running the live timers are
\* exactly the three timers of the current (latest) session, which the refs
\* name; while not running there is no live timer and no open context.
C1_OneSession ==
    /\ Cardinality(OpenContexts) <= 1
    /\ IF Running
       THEN LET s == Len(contexts)
            IN  /\ s >= 1
                /\ OpenContexts = {s}
                /\ ctxRef = s
                /\ {t.id : t \in timers} = {TimerId(s, k) : k \in Kinds}
                /\ Cardinality(timers) = 3
       ELSE timers = {} /\ OpenContexts = {}

\* A second session runs after the first was torn down.
C1_Witness ==
    /\ Running
    /\ Len(contexts) = 2
    /\ contexts[1] = "closed"
    /\ Cardinality(timers) = 3

\* C2: no step invokes a trigger of a session whose teardown has begun.
C2_NoTriggerAfterTeardown ==
    [][\A s \in DOMAIN contexts :
          TornDown(s) =>
             /\ nodes'[s].fired = nodes[s].fired
             /\ \A i \in DOMAIN calls' :
                   ~(calls'[i].op = "trigger" /\ calls'[i].ctx = s)]_vars

\* A session that triggered while it ran has been torn down, and a later
\* session's timers are live.
C2_Witness ==
    /\ Len(contexts) = 2
    /\ contexts[1] = "closed"
    /\ nodes[1].fired
    /\ nodes[2].fired

\* C3: in every teardown the three clearInterval calls of the session come
\* before its context's close(), and no live timer belongs to a closed
\* context, so no trigger has run against one.
C3_TimersBeforeClose ==
    /\ \A j \in DOMAIN calls :
          calls[j].op = "close" =>
             \A k \in Kinds :
                \E i \in 1..(j - 1) : calls[i] = Call("clearInterval", k, calls[j].ctx, FALSE)
    /\ \A t \in timers : contexts[t.id.ctx] = "running"
    /\ \A s \in DOMAIN nodes : ~nodes[s].firedClosed

\* The last handler was a teardown of a session that had triggered.
C3_Witness ==
    \E j \in DOMAIN calls :
        /\ calls[j].op = "close"
        /\ nodes[calls[j].ctx].fired
        /\ contexts[calls[j].ctx] = "closed"

\* C4 (as claimed): every torn-down session has its three timers cancelled,
\* all four drone sources stopped, its context closed and the refs cleared,
\* whichever teardown step raised.
C4_TeardownCompletes ==
    \A s \in DOMAIN contexts :
        TornDown(s) =>
           /\ \A t \in timers : t.id.ctx # s
           /\ \A o \in DOMAIN nodes[s].drone.osc : nodes[s].drone.osc[o] = "stopped"
           /\ contexts[s] = "closed"
           /\ ctxRef # s /\ nodesRef # s

\* C5 (as claimed): when a session's context has been closed, every continuous
\* source it started has been stopped: the drone's oscillators and LFO and
\* the pulse carrier.
C5_AllSourcesStopped ==
    \A s \in DOMAIN contexts :
        contexts[s] = "closed" =>
           /\ \A o \in DOMAIN nodes[s].drone.osc : nodes[s].drone.osc[o] = "stopped"
           /\ nodes[s].pulseOsc = "stopped"

\* C6: between two renders of the mounted component, isRunning false->true
\* creates exactly one session (one context, its three timers, its sources
\* started), true->false tears the session down, and a step that keeps
\* isRunning changes no context, no timer and no source, and makes no
\* lifecycle call.
C6_EdgeTriggered ==
    [][(mounted /\ mounted') =>
         /\ (props'.isRunning = props.isRunning) =>
               /\ contexts' = contexts
               /\ timers' = timers
               /\ SourceStates' = SourceStates
               /\ LifecycleCalls(calls') = {}
         /\ (~props.isRunning /\ props'.isRunning) =>
               /\ Len(contexts') = Len(contexts) + 1
               /\ \A i \in DOMAIN contexts : contexts'[i] = contexts[i]
               /\ contexts'[Len(contexts')] = "running"
               /\ Cardinality(timers') = 3
               /\ \A t \in timers' : t.id.ctx = Len(contexts')
               /\ nodes'[Len(contexts')].drone.running
         /\ (props.isRunning /\ ~props'.isRunning) =>
               /\ Len(contexts') = Len(contexts)
               /\ contexts'[ctxRef] = "closed"
               /\ timers' = {}
               /\ ~nodes'[ctxRef].drone.running]_vars

\* A config change reached a running second session (its automation is
\* pending) and both sessions were created by isRunning edges alone.
C6_Witness ==
    /\ Running
    /\ Len(contexts) = 2
    /\ nodes[2].masterGain.target # NoTarget
    /\ props.pulse # HomeDefaults.pulse

\* A commit in which the session effect runs with isRunning true.
StartAttempt ==
    \/ mounted /\ ~props.isRunning /\ props'.isRunning
    \/ ~mounted /\ props'.isRunning /\ audioAvailable' = audioAvailable

\* C7: a session start without an obtainable context raises to the caller and
\* leaves no session: no context, timer or source is created and the three
\* refs keep their values.
C7_FailFast ==
    [][(StartAttempt /\ ~audioAvailable) =>
         /\ thrown'
         /\ ~mounted'
         /\ contexts' = contexts
         /\ nodes' = nodes
         /\ timers' = timers
         /\ ctxRef' = ctxRef /\ nodesRef' = nodesRef /\ timersRef' = timersRef
         /\ cleanupOf' = 0]_vars

\* A start has failed: the error was raised and there is no session.
C7_Witness ==
    /\ thrown
    /\ props.isRunning
    /\ ~audioAvailable
    /\ timers = {}
    /\ ctxRef = 0

\* C8 (as claimed): while a session runs the drone's cutoff and gain sit at, or
\* head for, the values mapped from the current tension.
C8_DroneFollowsTension ==
    Running =>
       /\ QEq(Effective(nodes[nodesRef].drone.lpf), scale(props.tension, 0, 100, 260, 1800))
       /\ QEq(Effective(nodes[nodesRef].drone.gain), scale(props.tension, 0, 100, 1000, 2000))

\* C9 (as claimed): once a pulse tick has fired after the last pulse change,
\* the pulse timer runs at the interval mapped from the current pulse.
C9_NewIntervalTakesEffect ==
    (Running /\ pulseTicked) =>
       \A t \in timers :
          t.id.kind = "pulse" => QEq(t.ms, scale(props.pulse, 0, 100, 1600, 420))

\* C10: a render that changes volume or reverb in a running session leaves the
\* master and wet gains with a setTargetAtTime automation toward the mapped
\* value (time constants 50 ms and 100 ms) and assigns no value; each gain's
\* value is assigned once, at construction.
C10_SmoothedUpdates ==
    /\ [](\A s \in DOMAIN nodes :
             nodes[s].masterGain.assigned <= 1 /\ nodes[s].reverbWet.assigned <= 1)
    /\ [][(/\ mounted /\ mounted'
           /\ props.isRunning /\ props'.isRunning
           /\ (props'.volume # props.volume \/ props'.reverb # props.reverb)) =>
            LET n == nodes'[nodesRef']
                o == nodes[nodesRef]
            IN  /\ nodesRef' = nodesRef
                /\ n.masterGain.target = dbToGain(scale(props'.volume, 0, 100, -36, -3))
                /\ n.masterGain.tc = 50
                /\ n.reverbWet.target = scale(props'.reverb, 0, 100, 500, 5000)
                /\ n.reverbWet.tc = 100
                /\ n.masterGain.value = o.masterGain.value
                /\ n.reverbWet.value = o.reverbWet.value]_vars

\* A running session whose master and wet gains are heading for values other
\* than the ones assigned at construction.
C10_Witness ==
    /\ Running
    /\ nodes[nodesRef].masterGain.target # NoTarget
    /\ nodes[nodesRef].masterGain.target # nodes[nodesRef].masterGain.value
    /\ nodes[nodesRef].reverbWet.target # nodes[nodesRef].reverbWet.value

LastCall(log) == log[Len(log)]

\* C11: start() on a running drone changes nothing and raises nothing, stop()
\* on a drone that is not running (never started or already stopped) changes
\* nothing, and no stop() raises, whichever source's stop() fails.
C11_DroneIdempotent ==
    [][/\ (LastCall(layer'.log) = "start" /\ layer.drone.running) =>
             (layer'.drone = layer.drone /\ ~layer'.raised)
       /\ (LastCall(layer'.log) = "stop" /\ ~layer.drone.running) =>
             layer'.drone = layer.drone
       /\ (LastCall(layer'.log) = "stop") => ~layer'.raised]_vars

\* start() twice, then stop() twice: the second of each met a drone already in
\* that state.
C11_Witness ==
    /\ layer.log = <<"start", "start", "stop", "stop">>
    /\ ~layer.drone.running

\* C12: after a pulse trigger at time t the events at or after t on the pulse
\* gain are exactly set 0 at t, linear ramp to 0.6 at t+10, exponential ramp to
\* 0.0001 at t+600, and on the oscillator frequency exactly set 60 at t and
\* exponential ramp to 40 at t+90, all scheduled by that trigger.
C12_LastTriggerWins ==
    LET pl == layer.pulse
        t == pl.last
    IN  pl.n >= 1 =>
          /\ {e \in pl.gain : e.at >= t} =
                {Event("set", 0, t, pl.n), Event("linear", 6000, t + 10, pl.n),
                 Event("exp", 1, t + 600, pl.n)}
          /\ {e \in pl.freq : e.at >= t} =
                {Event("set", 60, t, pl.n), Event("exp", 40, t + 90, pl.n)}

\* A retrigger during the decay of the first trigger, whose events before the
\* retrigger are still scheduled.
C12_Witness ==
    /\ layer.pulse.n = 2
    /\ layer.pulse.last < 600
    /\ \E e \in layer.pulse.gain : e.by = 1 /\ e.at < layer.pulse.last

\* C13: a texture trigger adds one voice with its own source, band-pass filter
\* and envelope, the envelope's automation all scheduled by that trigger on the
\* new envelope; every earlier voice (nodes and pending automation) and the
\* shared noise buffer are left unchanged.
C13_IndependentOneShots ==
    [][LET old == layer.texture
           new == layer'.texture
           k == Len(new.voices)
       IN  new # old =>
             /\ k = Len(old.voices) + 1
             /\ SubSeq(new.voices, 1, k - 1) = old.voices
             /\ new.noiseBuffer = old.noiseBuffer
             /\ new.voices[k].src.buffer = old.noiseBuffer
             /\ new.voices[k].env.events = TextureEnvelope({}, layer.now, layer.tension, k)
             /\ \A e \in new.voices[k].env.events : e.by = k]_vars

\* A second texture voice started while the first one is still sounding.
C13_Witness ==
    /\ Len(layer.texture.voices) = 2
    /\ layer.texture.voices[2].src.startAt > layer.texture.voices[1].src.startAt
    /\ layer.texture.voices[2].src.startAt < layer.texture.voices[1].src.stopAt

\* a <= b for doubles: false when either is NaN.
JsLeq(a, b) == ~IsNaN(a) /\ ~IsNaN(b) /\ ~JsLess(b, a)
Between(x, a, b) == (JsLeq(a, x) /\ JsLeq(x, b)) \/ (JsLeq(b, x) /\ JsLeq(x, a))
\* The output range of each derived parameter, and each parameter as the
\* engine's operators compute it from an in-range value.
OutputRange ==
    [pulseMs |-> <<420, 1600>>, noiseEveryMs |-> <<1300, 4200>>, pluckChance |-> <<15, 55>>,
     masterDb |-> <<-36, -3>>, wetGain |-> <<500, 5000>>, droneCutoff |-> <<260, 1800>>,
     droneGain |-> <<1000, 2000>>, textureCenter |-> <<400, 3200>>, textureQ |-> <<2, 8>>,
     texturePeak |-> <<1200, 3500>>, textureDecay |-> <<600, 1600>>,
     pluckPeak |-> <<600, 1800>>, pluckDecay |-> <<450, 1200>>]
InOutputRange(d, name) ==
    Between(d[name], Num(OutputRange[name][1]), Num(OutputRange[name][2]))
EngineDerives(c) ==
    [pulseMs |-> pulseMs(c), noiseEveryMs |-> noiseEveryMs(c), pluckChance |-> pluckChance(c),
     masterDb |-> masterDb(c), wetGain |-> wetGain(c), droneCutoff |-> droneCutoff(c),
     droneGain |-> droneGain(c), textureCenter |-> textureCenter(c), textureQ |-> textureQ(c),
     texturePeak |-> texturePeak(c), textureDecay |-> textureDecay(c),
     pluckPeak |-> pluckPeak(c), pluckDecay |-> pluckDecay(c)]
InRangeValue(n) == IF n < 0 THEN 0 ELSE IF n > 100 THEN 100 ELSE n

C15_NonFiniteGuarded ==
    (layer.done /\ ~IsFinite(layer.value)) =>
        /\ ~layer.raised
        /\ \A name \in DOMAIN layer.derived : InOutputRange(layer.derived, name)

\* C16: for finite v, inLo, inHi, outLo, outHi the result of scale lies between
\* outLo and outHi, and scale is non-decreasing in v when outHi >= outLo and
\* non-increasing in v when outHi <= outLo.
C16_ScaleBoundedMonotonic ==
    layer.done =>
        /\ Between(layer.result, Num(layer.outMin), Num(layer.outMax))
        /\ \A w \in ScaleInputs :
              w >= layer.v =>
                LET rw == scaleJs(Num(w), Num(layer.inMin), Num(layer.inMax),
                                  Num(layer.outMin), Num(layer.outMax))
                IN  /\ layer.outMax >= layer.outMin => JsLeq(layer.result, rw)
                    /\ layer.outMax <= layer.outMin => JsLeq(rw, layer.result)

\* C17: the pulse interval handed to the pulse timer is 1600 ms for pulse 0,
\* 420 ms for pulse 100, and smaller for every larger pulse in [0,100].
C17_PulseIntervalDecreasing ==
    (layer.done /\ IsFinite(layer.value) /\ layer.value.q.n \in 0..100) =>
        LET p == layer.value.q.n IN
        /\ IsFinite(layer.derived.pulseMs)
        /\ QEq(layer.derived.pulseMs.q, pulseMs(p))
        /\ p = 0 => QEq(layer.derived.pulseMs.q, Q(1600, 1))
        /\ p = 100 => QEq(layer.derived.pulseMs.q, Q(420, 1))
        /\ \A q \in 0..100 :
              p < q => /\ JsLess(Derive(Num(q)).pulseMs, layer.derived.pulseMs)
                       /\ QLess(pulseMs(q), pulseMs(p))

\* The default pulse 60 gives 1600 - 0.6 * 1180 = 892 ms.
C17_Witness ==
    /\ layer.done
    /\ layer.value = Num(60)
    /\ QEq(layer.derived.pulseMs.q, Q(892, 1))

RefsAgree ==
    /\ nodesRef = 0 <=> ctxRef = 0
    /\ nodesRef # 0 =>
          /\ nodesRef = ctxRef
          /\ cleanupOf = ctxRef
          /\ contexts[ctxRef] = "running"
          /\ nodes[nodesRef].masterGain # Released

\* C18: nodesRef is set exactly when ctxRef is, and then both are the open
\* context and the nodes of the current session, so the parameter update never
\* reads a null or closed context; a step with no session before and after it
\* issues no automation (no node changes), whatever props it commits.
C18_RefsAgree ==
    /\ RefsAgree
    /\ [][/\ RefsAgree'
          /\ (ctxRef = 0 /\ ctxRef' = 0) => nodes' = nodes]_vars

\* A second session that has been retargeted by a parameter update, the first
\* one closed.
C18_Witness ==
    /\ Len(contexts) = 2
    /\ contexts[1] = "closed"
    /\ nodesRef = 2
    /\ ctxRef = 2
    /\ props.volume # HomeDefaults.volume
    /\ Effective(nodes[2].masterGain) = dbToGain(masterDb(props.volume))

\* The nodes with the parameters a parameter update retargets masked out.
ExceptTargets(ns, s) ==
    [ns EXCEPT ![s].masterGain = Released, ![s].reverbWet = Released,
               ![s].drone.lpf = Released, ![s].drone.gain = Released]
TensionOnly(old, new) == new.tension # old.tension /\ new = [old EXCEPT !.tension = new.tension]

\* C19: a session's timers carry the tension of its start (texture interval,
\* pluck probability, trigger argument) and do not change while the session
\* lasts; a tension change while running keeps the session and its timers and
\* changes only the drone's cutoff and gain targets, re-issuing the master and
\* wet gain targets; texture and pluck triggers pass the start tension.
C19_SessionCapturesTension ==
    [][LET s == cleanupOf IN
       /\ (cleanupOf' # 0 /\ cleanupOf' # s) =>
             \A t \in timers' :
                /\ t.tension = props'.tension
                /\ t.id.kind = "noise" => t.ms = noiseEveryMs(props'.tension)
       /\ (s # 0 /\ cleanupOf' = s) => timers' = timers
       /\ (s # 0 /\ mounted /\ TensionOnly(props, props')) =>
             /\ cleanupOf' = s
             /\ timers' = timers
             /\ ExceptTargets(nodes', s) = ExceptTargets(nodes, s)
             /\ Effective(nodes'[s].masterGain) = Effective(nodes[s].masterGain)
             /\ Effective(nodes'[s].reverbWet) = Effective(nodes[s].reverbWet)
             /\ Effective(nodes'[s].drone.lpf) = droneCutoff(props'.tension)
             /\ Effective(nodes'[s].drone.gain) = droneGain(props'.tension)
       /\ \A i \in DOMAIN calls' :
             (calls'[i].op = "trigger" /\ calls'[i].obj \in {"noise", "pluck"}) =>
                \E t \in timers' : /\ t.id = TimerId(calls'[i].ctx, calls'[i].obj)
                                   /\ calls'[i].args = <<t.tension>>
       /\ \A t \in timers', r \in RandomVals :
             t.id.kind = "pluck" =>
                (Fire(Eng, t, r)'.calls # <<>> <=> QLess(Q(r, 100), pluckChance(t.tension)))]_vars

\* A texture trigger after the tension was changed during the session: it
\* passes the tension of the session start, not the current one.
C19_Witness ==
    /\ cleanupOf # 0
    /\ \E t \in timers :
          /\ t.id.kind = "noise"
          /\ t.tension # props.tension
          /\ calls = <<Trigger("noise", cleanupOf, t.tension)>>
====
